---- MODULE Spec2Model ----
\* The credential cache, the SSO redirect resolver, the login flow and the
\* authenticated-request pipeline of src/src/api.rs as a state machine.
\* Text is a sequence of symbols (one-element strings such as "#", "=", or a
\* whole word such as "access_token" taken as one symbol).
EXTENDS Integers, Sequences, FiniteSets, TLC

\* ---------------------------------------------------------------- bounds
NumCallers == 2    \* threads, each holding the API or a clone of it
MaxCalls == 2      \* public operations called over the whole run
MaxAuth == 3       \* authorization requests within one get_token call
MaxAttempts == 2   \* try-secret callback invocations per login
MaxPairs == 2      \* key/value pairs in the fragment of a redirect location

Callers == 1..NumCallers

\* ---------------------------------------------------------------- text
Bearer == "Bearer "
AccessToken == "access_token"

\* str::replace(from, to) on a symbol sequence (api.rs:264)
RECURSIVE Replace(_, _, _)
Replace(s, from, to) ==
  IF s = <<>> THEN <<>>
  ELSE <<IF Head(s) = from THEN to ELSE Head(s)>> \o Replace(Tail(s), from, to)

\* index of the first occurrence of symbol c in s, 0 when absent
RECURSIVE IndexOf(_, _)
IndexOf(s, c) ==
  IF s = <<>> THEN 0
  ELSE IF Head(s) = c THEN 1
  ELSE LET i == IndexOf(Tail(s), c) IN IF i = 0 THEN 0 ELSE i + 1

Before(s, c) == LET i == IndexOf(s, c) IN IF i = 0 THEN s ELSE SubSeq(s, 1, i - 1)
After(s, c) == LET i == IndexOf(s, c) IN IF i = 0 THEN <<>> ELSE SubSeq(s, i + 1, Len(s))

\* split on every occurrence of c (form_urlencoded splits the input on '&')
RECURSIVE Split(_, _)
Split(s, c) ==
  IF IndexOf(s, c) = 0 THEN <<s>>
  ELSE <<Before(s, c)>> \o Split(After(s, c), c)

\* form-urlencoded decoding of one name or value: '+' becomes a space
RECURSIVE Decode(_)
Decode(s) ==
  IF s = <<>> THEN <<>>
  ELSE <<IF Head(s) = "+" THEN " " ELSE Head(s)>> \o Decode(Tail(s))

\* the pairs of the pieces: empty pieces are skipped, a piece is cut at its first '='
RECURSIVE PiecesToPairs(_)
PiecesToPairs(ps) ==
  IF ps = <<>> THEN <<>>
  ELSE IF Head(ps) = <<>> THEN PiecesToPairs(Tail(ps))
  ELSE <<[key |-> Decode(Before(Head(ps), "=")), value |-> Decode(After(Head(ps), "="))]>>
       \o PiecesToPairs(Tail(ps))

\* Url::query_pairs (api.rs:268) on the text of a query
QueryPairs(q) == PiecesToPairs(Split(q, "&"))

\* ---------------------------------------------------------------- results
\* Result<_, APIError> (api.rs:23-31): kind is "Ok" or the error variant, val the
\* carried text (the credential, the decoded value, the ServerError message)
Ok(v) == [kind |-> "Ok", val |-> v]
Err(k) == [kind |-> k, val |-> <<>>]
ServerError(m) == [kind |-> "ServerError", val |-> m]
NoResult == [kind |-> "none", val |-> <<>>]

\* Option<String> of the cache (api.rs:18)
None == [some |-> FALSE, val |-> <<>>]
Some(v) == [some |-> TRUE, val |-> v]

\* ---------------------------------------------------------------- redirect locations
Keys == {AccessToken, "state"}
Vals == {"t", "+"}
Pairs == [key : Keys, value : Vals]

RECURSIVE Join(_)
Join(ps) ==
  IF ps = <<>> THEN <<>>
  ELSE <<Head(ps).key, "=", Head(ps).value>>
       \o (IF Tail(ps) = <<>> THEN <<>> ELSE <<"&">> \o Join(Tail(ps)))

PairSeqs == UNION {[1..n -> Pairs] : n \in 0..MaxPairs}
AbsoluteBase == "drink://callback"
RelativeBase == "/callback"
Fragments == {<<>>} \cup {<<"#">> \o Join(ps) : ps \in PairSeqs}
Queries == {<<>>, <<"?", "state", "=", "t">>}
\* the values a Location header can carry: ascii is whether HeaderValue::to_str
\* succeeds, text the header's text
Locations ==
  {[ascii |-> TRUE, text |-> <<AbsoluteBase>> \o q \o f] : q \in Queries, f \in Fragments}
  \cup {[ascii |-> TRUE, text |-> <<RelativeBase, "#", AccessToken, "=", "t">>]}
  \cup {[ascii |-> FALSE, text |-> <<>>]}

\* Url::parse (api.rs:260): a text with no scheme is a relative URL and an error;
\* the query is what lies between the first '?' and the first '#'
UrlParse(s) ==
  IF s = <<>> \/ Head(s) # AbsoluteBase THEN [ok |-> FALSE, query |-> <<>>]
  ELSE [ok |-> TRUE, query |-> After(Before(s, "#"), "?")]

\* fault: a location without the key yields a credential with an empty token
RECURSIVE ScanPairsEmpty(_)
ScanPairsEmpty(ps) ==
  IF ps = <<>> THEN Ok(<<Bearer>>)
  ELSE IF Head(ps).key = <<AccessToken>> THEN Ok(<<Bearer>> \o Head(ps).value)
  ELSE ScanPairsEmpty(Tail(ps))

\* the loop of api.rs:268-275 over the pairs
RECURSIVE ScanPairs(_)
ScanPairs(ps) ==
  IF ps = <<>> THEN Err("BadFormat")
  ELSE IF Head(ps).key = <<AccessToken>> THEN Ok(<<Bearer>> \o Head(ps).value)
  ELSE ScanPairs(Tail(ps))

\* api.rs:260-275: what take_token makes of a Location header
ParseLocation(loc) ==
  IF ~loc.ascii THEN Err("BadFormat")
  ELSE LET url == UrlParse(Replace(loc.text, "#", "?"))
       IN IF ~url.ok THEN Err("BadFormat") ELSE ScanPairs(QueryPairs(url.query))

\* the locations with one pair, no query and nothing wrong
ShortLocations ==
  {[ascii |-> TRUE, text |-> <<AbsoluteBase, "#", k, "=", v>>] : k \in Keys, v \in Vals}
NoLocation == [ascii |-> FALSE, text |-> <<"none">>]

\* what the authorization endpoint can answer (api.rs:250-253), its Location
\* headers taken from L
AuthAnswers(L) ==
  {[kind |-> "error", err |-> e, loc |-> NoLocation] : e \in {"HTTPError", "IsahcError"}}
  \cup {[kind |-> "nolocation", err |-> "", loc |-> NoLocation]}
  \cup {[kind |-> "location", err |-> "", loc |-> l] : l \in L}

\* ---------------------------------------------------------------- service responses
StatusOK == 200
Statuses == {StatusOK, 401, 500}
\* a response body: io is whether it can be read, json whether it is a JSON object,
\* error and message its two text fields ("number": present but not text), fits
\* whether it decodes into the shape the caller expects, payload the decoded value
Bodies ==
  {[io |-> FALSE, json |-> FALSE, error |-> "absent", message |-> "absent",
    fits |-> FALSE, payload |-> ""]}
  \cup {[io |-> TRUE, json |-> FALSE, error |-> "absent", message |-> "absent",
         fits |-> FALSE, payload |-> ""]}
  \cup {[io |-> TRUE, json |-> TRUE, error |-> e, message |-> m, fits |-> FALSE,
         payload |-> ""] : e \in {"absent", "number", "ticket expired"}, m \in {"absent", "oops"}}
  \cup {[io |-> TRUE, json |-> TRUE, error |-> "absent", message |-> m, fits |-> TRUE,
         payload |-> "alice"] : m \in {"absent", "oops"}}

\* the body as text (Response::text, api.rs:223)
TextOf(b) ==
  IF ~b.json THEN <<"not json">>
  ELSE <<"{", "error", b.error, "message", b.message, "payload", b.payload, "}">>

IsText(f) == f \notin {"absent", "number"}
\* serde_json::from_str::<ErrorResponse> and ::<MessageResponse> (api.rs:227-231)
DecodeError(b) == IF b.json /\ IsText(b.error) THEN Some(<<b.error>>) ELSE None
\* fault: the message field is never looked at
DecodeMessageSkipped(b) == None
DecodeMessage(b) == IF b.json /\ IsText(b.message) THEN Some(<<b.message>>) ELSE None

\* fault: a 200 body that is JSON is taken as the value without decoding it into
\* the expected shape
HandleResponseLax(status, b) ==
  IF status = StatusOK
  THEN IF b.io /\ b.json THEN Ok(<<b.payload>>) ELSE Err("BadFormat")
  ELSE IF ~b.io THEN Err("BadFormat")
  ELSE IF DecodeError(b).some THEN ServerError(DecodeError(b).val)
  ELSE IF DecodeMessage(b).some THEN ServerError(DecodeMessage(b).val)
  ELSE ServerError(TextOf(b))

\* api.rs:217-235: the result authenticated_request makes of a response
HandleResponse(status, b) ==
  IF status = StatusOK
  THEN IF b.io /\ b.json /\ b.fits THEN Ok(<<b.payload>>) ELSE Err("BadFormat")
  ELSE IF ~b.io THEN Err("BadFormat")
  ELSE IF DecodeError(b).some THEN ServerError(DecodeError(b).val)
  ELSE IF DecodeMessage(b).some THEN ServerError(DecodeMessage(b).val)
  ELSE ServerError(TextOf(b))


\* the body that decodes into what its caller expects
PlainBodies == {b \in Bodies : b.io /\ b.json /\ b.fits /\ b.message = "absent"}

\* what the service can answer to a dispatched request (api.rs:214-217), its
\* bodies taken from B
NoResponse == [kind |-> "none", err |-> "", status |-> 0, body |-> CHOOSE b \in Bodies : ~b.io]
ServiceAnswers(B) ==
  {[kind |-> "error", err |-> e, status |-> 0, body |-> NoResponse.body] :
      e \in {"HTTPError", "IsahcError"}}
  \cup {[kind |-> "response", err |-> "", status |-> st, body |-> b] :
          st \in Statuses, b \in B}

\* ---------------------------------------------------------------- state
VARIABLES
  api,          \* api[t]: the API value caller t holds (api.rs:17-21)
  token,        \* token[c]: the Option<String> behind cache cell c (api.rs:18)
  tokenLock,    \* tokenLock[c]: the caller holding the Mutex of cell c, 0 when free
  nPw,          \* password_function mutexes created so far (api.rs:193, 309)
  prompt,       \* prompt[m]: the Secret Provider behind password_function mutex m
  pwLock,       \* pwLock[m]: the caller holding password_function mutex m, 0 when free
  pc,           \* pc[t]: where caller t is
  op,           \* op[t]: the public operation caller t is in
  uid,          \* uid[t]: get_credits' user.preferred_username, <<>> before step 2
  ret,          \* ret[t]: what the last get_token call in caller t's operation returned
  res,          \* res[t]: what caller t's public operation returned
  sent,         \* sent[t]: the answer to the request caller t dispatched
  chan,         \* chan[t]: signals waiting in the channel of caller t's login
  cbAlive,      \* cbAlive[t]: the try-secret callback (and its Sender) is not dropped
  attempts,     \* attempts[t]: callback invocations in caller t's login
  wins,         \* wins[t]: invocations in which the Ticket Exchanger succeeded
  outcome,      \* outcome[t]: the PasswordResult of the last invocation
  authN,        \* authN[t]: answers without Location so far in caller t's get_token call
  loginN,       \* loginN[t]: logins run so far in caller t's get_token call
  resStarted,   \* resolution sequences started over the whole run
  firstCred,    \* the first credential any get_token call returned
  seen,         \* seen[t]: the last answer of the authorization endpoint to caller t
  dispatched,   \* dispatched[t]: the requests sent to the service in caller t's operation
  nCalls        \* public operations called so far

vars == <<api, token, tokenLock, nPw, prompt, pwLock, pc, op, uid, ret, res, sent, chan, cbAlive,
          attempts, wins, outcome, authN, loginN, resStarted, firstCred, seen, dispatched,
          nCalls>>

Cells == Callers
PwIds == 1..(1 + MaxCalls)
NoAPI == [exists |-> FALSE, token |-> 0, password_function |-> 0]

\* API::new (api.rs:187-195): a fresh empty cache and the given provider, which
\* is default_password_prompt until set_password_prompt installs another
New(cell, pw) == [exists |-> TRUE, token |-> cell, password_function |-> pw]

\* fault: a clone with a cache of its own
CloneFresh(a) ==
  [exists |-> TRUE, token |-> (a.token % NumCallers) + 1,
   password_function |-> a.password_function]

\* impl Clone for API (api.rs:176-184): both Arcs are shared
CloneOf(a) == [exists |-> TRUE, token |-> a.token, password_function |-> a.password_function]

\* what kinit ends with (api.rs:327-345): its exit status and what it wrote to
\* stderr
Kinit(success) ==
  [success |-> success, stderr |-> IF success THEN "" ELSE "kinit: Password incorrect"]

\* the PasswordResult the try-secret callback returns (api.rs:346-349)
PasswordResult(k) == [success |-> k.success, message |-> k.stderr]
NoOutcome == [success |-> FALSE, message |-> "none"]

\* the Secret Providers an API is given (api.rs:187, 308): default_password_prompt
\* (api.rs:285-306) or a function of the caller's own, which may do anything
Providers == {"default", "custom"}

Init ==
  /\ api = [t \in Callers |-> IF t = 1 THEN New(1, 1) ELSE NoAPI]
  /\ token = [c \in Cells |-> None]
  /\ tokenLock = [c \in Cells |-> 0]
  /\ nPw = 1
  /\ prompt = [m \in PwIds |-> IF m = 1 THEN "default" ELSE "none"]
  /\ pwLock = [m \in PwIds |-> 0]
  /\ pc = [t \in Callers |-> "idle"]
  /\ op = [t \in Callers |-> "none"]
  /\ uid = [t \in Callers |-> <<>>]
  /\ ret = [t \in Callers |-> NoResult]
  /\ res = [t \in Callers |-> NoResult]
  /\ sent = [t \in Callers |-> NoResponse]
  /\ chan = [t \in Callers |-> 0]
  /\ cbAlive = [t \in Callers |-> FALSE]
  /\ attempts = [t \in Callers |-> 0]
  /\ wins = [t \in Callers |-> 0]
  /\ outcome = [t \in Callers |-> NoOutcome]
  /\ authN = [t \in Callers |-> 0]
  /\ loginN = [t \in Callers |-> 0]
  /\ resStarted = 0
  /\ firstCred = None
  /\ seen = [t \in Callers |-> NoLocation]
  /\ dispatched = [t \in Callers |-> <<>>]
  /\ nCalls = 0

Cell(t) == api[t].token
Pw(t) == api[t].password_function

\* ---------------------------------------------------------------- handles
\* let d = s.clone()
Clone(s, d) ==
  /\ api[s].exists /\ ~api[d].exists
  /\ api' = [api EXCEPT ![d] = CloneOf(api[s])]
  /\ UNCHANGED <<token, tokenLock, nPw, prompt, pwLock, pc, op, uid, ret, res, sent,
                 chan, cbAlive, attempts, wins, outcome, authN, loginN, resStarted,
                 firstCred, seen, dispatched, nCalls>>

\* fault: set_password_prompt also replaces the cache by an empty one
WithPromptFresh(a, m) ==
  [a EXCEPT !.password_function = m, !.token = (a.token % NumCallers) + 1]

\* the API value after set_password_prompt (api.rs:308-310): its password_function
\* is the new mutex m, its token is left alone
WithPrompt(a, m) == [a EXCEPT !.password_function = m]

set_password_prompt(t, k) ==
  /\ api[t].exists /\ pc[t] = "idle" /\ nCalls < MaxCalls
  /\ nPw' = nPw + 1
  /\ prompt' = [prompt EXCEPT ![nPw + 1] = k]
  /\ api' = [api EXCEPT ![t] = WithPrompt(api[t], nPw + 1)]
  /\ nCalls' = nCalls + 1
  /\ UNCHANGED <<token, tokenLock, pwLock, pc, op, uid, ret, res, sent, chan, cbAlive,
                 attempts, wins, outcome, authN, loginN, resStarted, firstCred, seen,
                 dispatched>>

\* ---------------------------------------------------------------- public calls
\* a caller starts get_token itself (api.rs:280)
CallGetToken(t) ==
  /\ api[t].exists /\ pc[t] = "idle" /\ nCalls < MaxCalls
  /\ op' = [op EXCEPT ![t] = "get_token"]
  /\ pc' = [pc EXCEPT ![t] = "lock"]
  /\ nCalls' = nCalls + 1
  /\ UNCHANGED <<api, token, tokenLock, nPw, prompt, pwLock, uid, ret, res, sent, chan,
                 cbAlive, attempts, wins, outcome, authN, loginN, resStarted,
                 firstCred, seen, dispatched>>

\* authenticated_request up to get_token (api.rs:205-206): HttpClient::new
\* succeeds (ok) or the request fails with its error
Enter(t, ok) ==
  IF ok
  THEN pc' = [pc EXCEPT ![t] = "lock"] /\ res' = res
  ELSE pc' = [pc EXCEPT ![t] = "done"] /\ res' = [res EXCEPT ![t] = Err("IsahcError")]

\* drop, get_status_for_machine and get_credits enter authenticated_request
\* (api.rs:237-244, 358-363, 374-386)
CallRequest(t, o, ok) ==
  /\ api[t].exists /\ pc[t] = "idle" /\ nCalls < MaxCalls
  /\ op' = [op EXCEPT ![t] = o]
  /\ Enter(t, ok)
  /\ nCalls' = nCalls + 1
  /\ UNCHANGED <<api, token, tokenLock, nPw, prompt, pwLock, uid, ret, sent, chan,
                 cbAlive, attempts, wins, outcome, authN, loginN, resStarted,
                 firstCred, seen, dispatched>>

drop(t, ok) == CallRequest(t, "request", ok)
get_status_for_machine(t, ok) == CallRequest(t, "request", ok)
get_credits(t, ok) == CallRequest(t, "credits", ok)

\* ---------------------------------------------------------------- credential cache
\* fault: get_token goes on to take_token without waiting for the lock
get_token_unlocked(t) ==
  /\ pc[t] = "lock"
  /\ tokenLock' = [tokenLock EXCEPT ![Cell(t)] = t]
  /\ pc' = [pc EXCEPT ![t] = "take"]
  /\ UNCHANGED <<api, token, nPw, prompt, pwLock, op, uid, ret, res, sent, chan,
                 cbAlive, attempts, wins, outcome, authN, loginN, resStarted,
                 firstCred, seen, dispatched, nCalls>>

\* get_token takes the cache lock (api.rs:281)
get_token(t) ==
  /\ pc[t] = "lock"
  /\ tokenLock[Cell(t)] = 0
  /\ tokenLock' = [tokenLock EXCEPT ![Cell(t)] = t]
  /\ pc' = [pc EXCEPT ![t] = "take"]
  /\ UNCHANGED <<api, token, nPw, prompt, pwLock, op, uid, ret, res, sent, chan,
                 cbAlive, attempts, wins, outcome, authN, loginN, resStarted,
                 firstCred, seen, dispatched, nCalls>>

\* fault: authenticated_request goes on to send whatever get_token returned
ReturnTokenLax(t, r) ==
  /\ ret' = [ret EXCEPT ![t] = r]
  /\ tokenLock' = [tokenLock EXCEPT ![Cell(t)] = 0]
  /\ IF op[t] = "get_token"
     THEN pc' = [pc EXCEPT ![t] = "done"] /\ res' = [res EXCEPT ![t] = r]
     ELSE pc' = [pc EXCEPT ![t] = "send"] /\ res' = res
  /\ firstCred' = IF r.kind = "Ok" /\ ~firstCred.some THEN Some(r.val) ELSE firstCred
  /\ authN' = [authN EXCEPT ![t] = 0]
  /\ loginN' = [loginN EXCEPT ![t] = 0]

\* get_token returns r and the guard is dropped (api.rs:282-283); a direct caller
\* has its result, and so has authenticated_request when r is an error; with a
\* credential it goes on to send its request (api.rs:206-214)
ReturnToken(t, r) ==
  /\ ret' = [ret EXCEPT ![t] = r]
  /\ tokenLock' = [tokenLock EXCEPT ![Cell(t)] = 0]
  /\ IF op[t] = "get_token" \/ r.kind # "Ok"
     THEN pc' = [pc EXCEPT ![t] = "done"] /\ res' = [res EXCEPT ![t] = r]
     ELSE pc' = [pc EXCEPT ![t] = "send"] /\ res' = res
  /\ firstCred' = IF r.kind = "Ok" /\ ~firstCred.some THEN Some(r.val) ELSE firstCred
  /\ authN' = [authN EXCEPT ![t] = 0]
  /\ loginN' = [loginN EXCEPT ![t] = 0]

\* take_token with the cache populated (api.rs:247-248)
TakeCached(t) ==
  /\ pc[t] = "take" /\ tokenLock[Cell(t)] = t
  /\ token[Cell(t)].some
  /\ ReturnToken(t, Ok(token[Cell(t)].val))
  /\ UNCHANGED <<api, token, nPw, prompt, pwLock, op, uid, sent, chan, cbAlive,
                 attempts, wins, outcome, resStarted, seen, dispatched, nCalls>>

\* fault: the token is cached without its prefix
StoreBare(cache, r) == IF r.kind = "Ok" THEN Some(Tail(r.val)) ELSE cache
\* fault: a failed parse is cached as an empty credential
StoreError(cache, r) == IF r.kind = "Ok" THEN Some(r.val) ELSE Some(<<>>)
\* fault: the token is returned and not cached
StoreNothing(cache, r) == cache

\* the cache after take_token has made r of a Location header (api.rs:270-272)
Store(cache, r) == IF r.kind = "Ok" THEN Some(r.val) ELSE cache

\* take_token with the cache empty (api.rs:249-276): one authorization request
take_token(t, resp) ==
  /\ pc[t] = "take" /\ tokenLock[Cell(t)] = t
  /\ ~token[Cell(t)].some
  /\ resp.kind = "nolocation" => authN[t] + 1 < MaxAuth
  /\ resStarted' = IF authN[t] = 0 THEN resStarted + 1 ELSE resStarted
  /\ CASE resp.kind = "error" ->
            /\ ReturnToken(t, Err(resp.err))
            /\ token' = token
       [] resp.kind = "nolocation" ->
            /\ pc' = [pc EXCEPT ![t] = "login"]
            /\ authN' = [authN EXCEPT ![t] = @ + 1]
            /\ UNCHANGED <<token, tokenLock, ret, res, firstCred, loginN>>
       [] resp.kind = "location" ->
            LET r == ParseLocation(resp.loc)
            IN /\ ReturnToken(t, r)
               /\ token' = [token EXCEPT ![Cell(t)] = Store(@, r)]
  /\ seen' = [seen EXCEPT ![t] = resp.loc]
  /\ UNCHANGED <<api, nPw, prompt, pwLock, op, uid, sent, chan, cbAlive, attempts,
                 wins, outcome, dispatched, nCalls>>

\* ---------------------------------------------------------------- login flow
\* login() up to the call of the Secret Provider (api.rs:312-324): the provider's
\* mutex is taken and the channel created
login(t) ==
  /\ pc[t] = "login"
  /\ pwLock[Pw(t)] = 0
  /\ pwLock' = [pwLock EXCEPT ![Pw(t)] = t]
  /\ pc' = [pc EXCEPT ![t] = "prompt"]
  /\ loginN' = [loginN EXCEPT ![t] = @ + 1]
  /\ chan' = [chan EXCEPT ![t] = 0]
  /\ cbAlive' = [cbAlive EXCEPT ![t] = TRUE]
  /\ attempts' = [attempts EXCEPT ![t] = 0]
  /\ wins' = [wins EXCEPT ![t] = 0]
  /\ outcome' = [outcome EXCEPT ![t] = NoOutcome]
  /\ UNCHANGED <<api, token, tokenLock, nPw, prompt, op, uid, ret, res, sent, authN,
                 resStarted, firstCred, seen, dispatched, nCalls>>

\* fault: the signal is sent whatever the exchange ended with
SignalAlways(n, success) == n + 1

\* the signals in the channel after an invocation whose exchange ended with
\* `success` (api.rs:340-343)
Signal(n, success) == IF success THEN n + 1 ELSE n

\* what the callback returns to the provider (api.rs:346): always Ok
CallbackResult(k) == [ok |-> TRUE, value |-> PasswordResult(k)]

\* fault: the prompt returns after any attempt
PromptGivesUp(result) == TRUE

\* default_password_prompt's match (api.rs:288-304): it returns on a result that
\* is a success or an Err, and loops on a failed attempt
PromptReturns(result) == ~result.ok \/ result.value.success

\* one round of default_password_prompt (api.rs:286-304): the password is read,
\* the callback invoked (api.rs:325-350), and the prompt returns, dropping the
\* callback, or loops
default_password_prompt(t, success) ==
  /\ pc[t] = "prompt" /\ prompt[Pw(t)] = "default"
  /\ attempts[t] < MaxAttempts
  /\ attempts' = [attempts EXCEPT ![t] = @ + 1]
  /\ wins' = [wins EXCEPT ![t] = IF success THEN @ + 1 ELSE @]
  /\ chan' = [chan EXCEPT ![t] = Signal(@, success)]
  /\ outcome' = [outcome EXCEPT ![t] = PasswordResult(Kinit(success))]
  /\ IF PromptReturns(CallbackResult(Kinit(success)))
     THEN pc' = [pc EXCEPT ![t] = "recv"] /\ cbAlive' = [cbAlive EXCEPT ![t] = FALSE]
     ELSE pc' = pc /\ cbAlive' = cbAlive
  /\ UNCHANGED <<api, token, tokenLock, nPw, prompt, pwLock, op, uid, ret, res, sent,
                 authN, loginN, resStarted, firstCred, seen, dispatched, nCalls>>

\* the try-secret callback (api.rs:325-350), invoked by a Secret Provider of the
\* caller's own while it runs, or later by whoever the provider handed the
\* callback to
TrySecret(t, success) ==
  /\ pc[t] \in {"prompt", "recv"} /\ cbAlive[t]
  /\ prompt[Pw(t)] = "custom"
  /\ attempts[t] < MaxAttempts
  /\ attempts' = [attempts EXCEPT ![t] = @ + 1]
  /\ wins' = [wins EXCEPT ![t] = IF success THEN @ + 1 ELSE @]
  /\ chan' = [chan EXCEPT ![t] = Signal(@, success)]
  /\ outcome' = [outcome EXCEPT ![t] = PasswordResult(Kinit(success))]
  /\ UNCHANGED <<api, token, tokenLock, nPw, prompt, pwLock, pc, op, uid, ret, res,
                 sent, cbAlive, authN, loginN, resStarted, firstCred, seen, dispatched,
                 nCalls>>

\* a Secret Provider of the caller's own returns (api.rs:351); the callback is dropped with it unless
\* the provider moved it elsewhere (Box<TryPasswordFn> is Send + 'static, api.rs:159)
ProviderReturn(t, keep) ==
  /\ pc[t] = "prompt" /\ prompt[Pw(t)] = "custom"
  /\ pc' = [pc EXCEPT ![t] = "recv"]
  /\ cbAlive' = [cbAlive EXCEPT ![t] = keep]
  /\ UNCHANGED <<api, token, tokenLock, nPw, prompt, pwLock, op, uid, ret, res, sent,
                 chan, attempts, wins, outcome, authN, loginN, resStarted, firstCred,
                 seen, dispatched, nCalls>>

\* a callback the provider kept is dropped
DropCallback(t) ==
  /\ pc[t] = "recv" /\ cbAlive[t]
  /\ cbAlive' = [cbAlive EXCEPT ![t] = FALSE]
  /\ UNCHANGED <<api, token, tokenLock, nPw, prompt, pwLock, pc, op, uid, ret, res,
                 sent, chan, attempts, wins, outcome, authN, loginN, resStarted,
                 firstCred, seen, dispatched, nCalls>>

\* fault: a dropped Sender is reported before a signal that waits
RecvDisconnected(signals, alive) ==
  IF ~alive THEN "LoginAborted" ELSE IF signals > 0 THEN "Ok" ELSE "block"
\* fault: the channel is polled instead of waited on
RecvNoWait(signals, alive) == IF signals > 0 THEN "Ok" ELSE "LoginAborted"

\* rx_password.recv() (api.rs:352-355): "Ok" with a signal waiting, "LoginAborted"
\* when there is none and every Sender is dropped, "block" otherwise
Recv(signals, alive) ==
  IF signals > 0 THEN "Ok" ELSE IF ~alive THEN "LoginAborted" ELSE "block"

\* fault: the provider's guard outlives login()
EndLoginHeld(t) ==
  /\ pwLock' = pwLock
  /\ cbAlive' = [cbAlive EXCEPT ![t] = FALSE]
  /\ chan' = [chan EXCEPT ![t] = 0]
  /\ attempts' = [attempts EXCEPT ![t] = 0]
  /\ wins' = [wins EXCEPT ![t] = 0]
  /\ outcome' = [outcome EXCEPT ![t] = NoOutcome]

\* login() is over: its channel and the provider's guard are dropped (api.rs:356)
EndLogin(t) ==
  /\ pwLock' = [pwLock EXCEPT ![Pw(t)] = 0]
  /\ cbAlive' = [cbAlive EXCEPT ![t] = FALSE]
  /\ chan' = [chan EXCEPT ![t] = 0]
  /\ attempts' = [attempts EXCEPT ![t] = 0]
  /\ wins' = [wins EXCEPT ![t] = 0]
  /\ outcome' = [outcome EXCEPT ![t] = NoOutcome]

\* login() returns Ok and take_token calls itself (api.rs:352-353, 256-257)
LoginOk(t) ==
  /\ pc[t] = "recv"
  /\ Recv(chan[t], cbAlive[t]) = "Ok"
  /\ EndLogin(t)
  /\ pc' = [pc EXCEPT ![t] = "take"]
  /\ UNCHANGED <<api, token, tokenLock, nPw, prompt, op, uid, ret, res, sent, authN,
                 loginN, resStarted, firstCred, seen, dispatched, nCalls>>

\* fault: take_token goes on to its retry after a login() that failed
LoginAbortedRetry(t) ==
  /\ pc[t] = "recv"
  /\ Recv(chan[t], cbAlive[t]) = "LoginAborted"
  /\ EndLogin(t)
  /\ pc' = [pc EXCEPT ![t] = "take"]
  /\ UNCHANGED <<api, token, tokenLock, nPw, prompt, op, uid, ret, res, sent, authN,
                 loginN, resStarted, firstCred, seen, dispatched, nCalls>>

\* login() returns Err(LoginAborted), which take_token and get_token return
\* (api.rs:354, 256)
LoginAborted(t) ==
  /\ pc[t] = "recv"
  /\ Recv(chan[t], cbAlive[t]) = "LoginAborted"
  /\ EndLogin(t)
  /\ ReturnToken(t, Err("LoginAborted"))
  /\ UNCHANGED <<api, token, nPw, prompt, op, uid, sent, resStarted, seen, dispatched,
                 nCalls>>

\* ---------------------------------------------------------------- request pipeline
\* fault: the uid is left out of the URL
BuildRequestNoUid(credential, user) == [auth |-> credential, uid |-> <<>>]

\* the request authenticated_request builds (api.rs:207-213, 365-368): its
\* Authorization header is what get_token returned, its URL carries the uid
BuildRequest(credential, user) == [auth |-> credential, uid |-> user]

\* the requests dispatched once the service has answered r: builder.body failing
\* (HTTPError, api.rs:215) ends the call before client.send
Dispatch(sofar, req, r) ==
  IF r.kind = "error" /\ r.err = "HTTPError" THEN sofar
  ELSE Append(sofar, [auth |-> req.auth, uid |-> req.uid, answer |-> r])

\* the request is built and sent and the answer handled (api.rs:207-235);
\* get_credits goes on to its second request after the first (api.rs:363-364),
\* whose HttpClient::new succeeds (ok) or fails
Send(t, r, ok) ==
  /\ pc[t] = "send"
  /\ dispatched' = [dispatched EXCEPT ![t] = Dispatch(@, BuildRequest(ret[t].val, uid[t]), r)]
  /\ LET out == IF r.kind = "error" THEN Err(r.err) ELSE HandleResponse(r.status, r.body)
     IN IF op[t] = "credits" /\ uid[t] = <<>> /\ out.kind = "Ok"
        THEN /\ uid' = [uid EXCEPT ![t] = out.val]
             /\ Enter(t, ok)
             /\ sent' = sent
        ELSE /\ uid' = uid
             /\ pc' = [pc EXCEPT ![t] = "done"]
             /\ res' = [res EXCEPT ![t] = out]
             /\ sent' = [sent EXCEPT ![t] = r]
  /\ UNCHANGED <<api, token, tokenLock, nPw, prompt, pwLock, op, ret, chan, cbAlive,
                 attempts, wins, outcome, authN, loginN, resStarted, firstCred, seen,
                 nCalls>>

\* the public operation has returned to its caller
Return(t) ==
  /\ pc[t] = "done"
  /\ pc' = [pc EXCEPT ![t] = "idle"]
  /\ op' = [op EXCEPT ![t] = "none"]
  /\ uid' = [uid EXCEPT ![t] = <<>>]
  /\ ret' = [ret EXCEPT ![t] = NoResult]
  /\ res' = [res EXCEPT ![t] = NoResult]
  /\ sent' = [sent EXCEPT ![t] = NoResponse]
  /\ seen' = [seen EXCEPT ![t] = NoLocation]
  /\ dispatched' = [dispatched EXCEPT ![t] = <<>>]
  /\ UNCHANGED <<api, token, tokenLock, nPw, prompt, pwLock, chan, cbAlive, attempts,
                 wins, outcome, authN, loginN, resStarted, firstCred, nCalls>>

\* ---------------------------------------------------------------- specification
\* the steps of the callers in T, the authorization endpoint answering from A and
\* the service from R
Step(T, A, R, O) ==
  \/ \E t \in T, k \in Providers : set_password_prompt(t, k)
  \/ \E t \in T : CallGetToken(t)
  \/ \E t \in T, ok \in O : drop(t, ok)
  \/ \E t \in T, ok \in O : get_status_for_machine(t, ok)
  \/ \E t \in T, ok \in O : get_credits(t, ok)
  \/ \E t \in T : get_token(t)
  \/ \E t \in T : TakeCached(t)
  \/ \E t \in T, resp \in A : take_token(t, resp)
  \/ \E t \in T : login(t)
  \/ \E t \in T, success \in BOOLEAN : default_password_prompt(t, success)
  \/ \E t \in T, success \in BOOLEAN : TrySecret(t, success)
  \/ \E t \in T, keep \in BOOLEAN : ProviderReturn(t, keep)
  \/ \E t \in T : DropCallback(t)
  \/ \E t \in T : LoginOk(t)
  \/ \E t \in T : LoginAborted(t)
  \/ \E t \in T, r \in R, ok \in O : Send(t, r, ok)
  \/ \E t \in T : Return(t)

\* the answers the callers of Spec meet: one kind of transport error, the short
\* locations, one body, a status that is 200 and one that is not
FewAuthAnswers == {a \in AuthAnswers(ShortLocations) : a.err # "HTTPError"}
FewServiceAnswers ==
  {r \in ServiceAnswers(PlainBodies) : r.err # "HTTPError" /\ r.status # 401}

\* every caller, the API cloned among them
Next ==
  \/ \E s, d \in Callers : Clone(s, d)
  \/ Step(Callers, FewAuthAnswers, FewServiceAnswers, {TRUE})

Spec == Init /\ [][Next]_vars

\* one caller, every Location header and every body
NextSeq == Step({1}, AuthAnswers(Locations), ServiceAnswers(Bodies), BOOLEAN)

SpecSeq == Init /\ [][NextSeq]_vars

\* ---------------------------------------------------------------- properties
\* caller t is inside get_token, holding the lock of its cache
Holding == {"take", "login", "prompt", "recv"}
InToken(t) == pc[t] \in Holding

\* C1: once a get_token call has returned a credential, no authorization request
\* is made and no login run any more (the count of resolutions stays), and every
\* get_token call that returns, on any clone, returns that same credential
C1_CachedCredential ==
  [][firstCred.some =>
       /\ resStarted' = resStarted
       /\ \A t \in Callers :
            /\ authN'[t] <= authN[t]
            /\ loginN'[t] <= loginN[t]
            /\ (InToken(t) /\ pc'[t] \notin Holding) => ret'[t] = Ok(firstCred.val)]_vars

\* C1 happens: after one resolution a direct call has the credential and a
\* request of another caller has been handed the same one
C1_Witness ==
  /\ firstCred.some /\ resStarted = 1
  /\ \E t, u \in Callers :
       /\ t # u
       /\ op[t] = "get_token" /\ pc[t] = "done" /\ res[t] = Ok(firstCred.val)
       /\ op[u] = "request" /\ pc[u] = "send" /\ ret[u] = Ok(firstCred.val)

\* C2 as stated: within one get_token call the Login Flow runs at most once (a
\* second answer without redirect ends the call)
C2_RetryOnce == \A t \in Callers : loginN[t] <= 1

\* C3 as stated: when every caller has called get_token and has its result, one
\* resolution was performed in total and all hold the same credential
C3_ExactlyOneResolution ==
  (\A t \in Callers : op[t] = "get_token" /\ pc[t] = "done")
    => /\ resStarted = 1
       /\ \A t, u \in Callers : ret[t].kind = "Ok" /\ ret[t] = ret[u]

\* C3 amended: every caller that receives a credential receives the same one, and
\* when the first resolution succeeds it is the only one ever performed
C3_SingleResolution ==
  /\ [](\A t \in Callers : ret[t].kind = "Ok" => firstCred.some /\ ret[t].val = firstCred.val)
  /\ [][(resStarted = 1 /\ firstCred.some) => resStarted' = 1]_vars

\* C3 happens: every caller called get_token, one resolution ran and all hold
\* the same credential
C3_Witness ==
  /\ resStarted = 1
  /\ \A t \in Callers : op[t] = "get_token" /\ pc[t] = "done" /\ ret[t].kind = "Ok"
  /\ \A t, u \in Callers : ret[t] = ret[u]

\* C4 as stated: over the whole run at most one resolution is ever started
C4_AtMostOneEver == resStarted <= 1

\* C4 amended: at most one resolution is in progress at any time, and none is
\* started while a cache holds a credential
C4_OneAtATime ==
  /\ [](Cardinality({t \in Callers : InToken(t)}) <= 1)
  /\ [][(\E c \in Cells : token[c].some) => resStarted' = resStarted]_vars

\* C4 happens: a resolution has failed for one caller and a second one is in
\* progress for another
C4_Witness ==
  /\ resStarted = 2
  /\ \E t, u \in Callers :
       /\ pc[t] = "done" /\ ret[t].kind \notin {"Ok", "none"}
       /\ InToken(u) /\ authN[u] > 0

\* C5: while no invocation of the try-secret callback has seen the exchange
\* succeed, no signal is in the channel; when the provider has returned and
\* dropped the callback, recv fails; and a login() that returns with no such
\* invocation returns LoginAborted, which get_token returns
C5_LoginAborted ==
  /\ [](\A t \in Callers :
          /\ wins[t] = 0 => chan[t] = 0
          /\ (pc[t] = "recv" /\ wins[t] = 0 /\ ~cbAlive[t])
               => Recv(chan[t], cbAlive[t]) = "LoginAborted")
  /\ [][\A t \in Callers :
          (pc[t] = "recv" /\ pc'[t] # "recv" /\ wins[t] = 0)
            => pc'[t] = "done" /\ ret'[t] = Err("LoginAborted")]_vars

\* C5 happens: the callback was invoked, the exchange failed, the provider has
\* returned and recv fails
C5_Witness ==
  \E t \in Callers :
    /\ pc[t] = "recv" /\ attempts[t] > 0 /\ wins[t] = 0 /\ ~cbAlive[t]
    /\ chan[t] = 0 /\ Recv(chan[t], cbAlive[t]) = "LoginAborted"

\* C6: the cache of every API value holds nothing or the first credential
\* returned, and no step changes a cache that holds a credential, nor the cache
\* an API value refers to
C6_WrittenOnce ==
  /\ [](\A t \in Callers :
          (api[t].exists /\ token[Cell(t)].some) => token[Cell(t)] = firstCred)
  /\ [][\A t \in Callers :
          (api[t].exists /\ token[Cell(t)].some)
            => api'[t].exists /\ token'[api'[t].token] = token[Cell(t)]]_vars

\* C6 happens: the cache holds a credential, the API was cloned and a caller has
\* replaced its Secret Provider
C6_Witness ==
  /\ \A t \in Callers : api[t].exists /\ token[Cell(t)].some
  /\ \E t \in Callers : Pw(t) > 1 /\ pc[t] = "idle"

\* the decoded pairs of the fragment of a location
FragmentPairs(loc) == QueryPairs(After(loc.text, "#"))
HasAccessToken(ps) == \E i \in 1..Len(ps) : ps[i].key = <<AccessToken>>

\* C7 as stated: when the authorization endpoint answers with an absolute
\* location whose fragment has the key access_token, get_token returns "Bearer "
\* and the value of the first such key, and the cache holds the same
C7_FragmentToken ==
  \A t \in Callers :
    (/\ pc[t] \in {"send", "done"}
     /\ seen[t].ascii /\ Head(seen[t].text) = AbsoluteBase
     /\ HasAccessToken(FragmentPairs(seen[t])))
      => /\ ret[t] = ScanPairs(FragmentPairs(seen[t]))
         /\ token[Cell(t)] = Some(ret[t].val)

\* the message the spec's priority picks from a body that was read
Chosen(b) ==
  IF b.json /\ IsText(b.error) THEN <<b.error>>
  ELSE IF b.json /\ IsText(b.message) THEN <<b.message>>
  ELSE TextOf(b)
Answered(t) == pc[t] = "done" /\ sent[t].kind = "response"

\* C8 as stated: every answer whose status is not 200 ends in ServerError with
\* the error field, else the message field, else the raw text
C8_ServerErrorAlways ==
  \A t \in Callers :
    (Answered(t) /\ sent[t].status # StatusOK)
      => res[t] = ServerError(Chosen(sent[t].body))

\* C8 amended: an answer whose status is not 200 ends in ServerError with that
\* message when its body can be read, and in BadFormat when it cannot
C8_ServerErrorWhenRead ==
  \A t \in Callers :
    (Answered(t) /\ sent[t].status # StatusOK)
      => res[t] = IF sent[t].body.io THEN ServerError(Chosen(sent[t].body))
                  ELSE Err("BadFormat")

\* C8 happens: a body with both fields came with status 500 and the error field
\* was chosen
C8_Witness ==
  \E t \in Callers :
    /\ Answered(t) /\ sent[t].status = 500
    /\ IsText(sent[t].body.error) /\ IsText(sent[t].body.message)
    /\ res[t] = ServerError(<<sent[t].body.error>>)

\* C9 as stated: an answer with status 401 ends in Unauthorized
C9_Unauthorized ==
  \A t \in Callers :
    (Answered(t) /\ sent[t].status = 401) => res[t].kind = "Unauthorized"

\* C10: an answer with status 200 ends in the decoded value when the body is read
\* and decodes into the expected shape, and in BadFormat otherwise
C10_Status200 ==
  \A t \in Callers :
    (Answered(t) /\ sent[t].status = StatusOK)
      => res[t] = IF sent[t].body.io /\ sent[t].body.json /\ sent[t].body.fits
                  THEN Ok(<<sent[t].body.payload>>)
                  ELSE Err("BadFormat")

\* C10 happens: a 200 answer whose body decodes into the expected shape has
\* given the caller the decoded value
C10_Witness ==
  \E t \in Callers :
    /\ Answered(t) /\ sent[t].status = StatusOK /\ sent[t].body.fits
    /\ res[t] = Ok(<<"alice">>)

\* C11: a request is sent only with what get_token returned as a credential,
\* which is the cached one; one authenticated_request sends at most one request
\* (get_credits makes two, the second with the uid); and when get_token fails
\* inside a request the operation ends with that same error and sends nothing
C11_ErrorsPropagate ==
  /\ [](\A t \in Callers :
          /\ pc[t] = "send" => ret[t].kind = "Ok"
          /\ \A i \in 1..Len(dispatched[t]) :
               token[Cell(t)] = Some(dispatched[t][i].auth)
          /\ Len(dispatched[t]) <= (IF op[t] = "credits" THEN 2 ELSE 1)
          /\ Len(dispatched[t]) = 2
               => dispatched[t][1].uid = <<>> /\ dispatched[t][2].uid # <<>>)
  /\ [][\A t \in Callers :
          (InToken(t) /\ pc'[t] \notin Holding /\ op[t] # "get_token"
           /\ ret'[t].kind # "Ok")
            => /\ pc'[t] = "done" /\ res'[t] = ret'[t]
               /\ dispatched'[t] = dispatched[t]]_vars

\* C11 happens: get_token failed with BadFormat inside a request, which ended
\* with BadFormat and sent nothing
C11_Witness ==
  \E t \in Callers :
    /\ op[t] = "request" /\ pc[t] = "done"
    /\ ret[t] = Err("BadFormat") /\ res[t] = Err("BadFormat")
    /\ dispatched[t] = <<>>

\* C12: two callers sharing a cache are never both inside get_token past the
\* lock, and while one is, a caller waiting for the lock stays waiting and is
\* returned nothing
C12_OneInside ==
  /\ [](\A t, u \in Callers :
          (t # u /\ api[t].exists /\ api[u].exists /\ Cell(t) = Cell(u))
            => ~(InToken(t) /\ InToken(u)))
  /\ [][\A t, u \in Callers :
          (t # u /\ InToken(u) /\ pc[t] = "lock" /\ Cell(t) = Cell(u))
            => pc'[t] = "lock" /\ ret'[t] = ret[t] /\ res'[t] = res[t]]_vars

\* C12 happens: one caller is in the login of its resolution while another,
\* sharing the cache, waits for the lock
C12_Witness ==
  \E t, u \in Callers :
    /\ t # u /\ Cell(t) = Cell(u)
    /\ pc[u] = "recv" /\ tokenLock[Cell(u)] = u
    /\ pc[t] = "lock"

\* the try-secret callback of caller t's login is invoked in this step
Invoked(t) == attempts'[t] = attempts[t] + 1

\* C13: an invocation of the callback puts one signal in the channel exactly
\* when its exchange succeeded, and returns success exactly then; after a failed
\* exchange it returns kinit's stderr text and sends nothing; and a login() that
\* returns, returns Ok exactly when some invocation during it succeeded
C13_SignalIffSuccess ==
  [][\A t \in Callers :
       /\ Invoked(t)
            => /\ chan'[t] \in {chan[t], chan[t] + 1}
               /\ (chan'[t] = chan[t] + 1) <=> (wins'[t] = wins[t] + 1)
               /\ outcome'[t].success <=> (wins'[t] = wins[t] + 1)
               /\ ~outcome'[t].success
                    => outcome'[t].message = Kinit(FALSE).stderr
       /\ (pc[t] = "recv" /\ pc'[t] # "recv")
            => (pc'[t] = "take" <=> wins[t] > 0)]_vars

\* C13 happens: an exchange succeeded, a later one failed, and login() is about
\* to return Ok
C13_Witness ==
  \E t \in Callers :
    /\ pc[t] = "recv" /\ attempts[t] = 2 /\ wins[t] = 1
    /\ ~outcome[t].success /\ Recv(chan[t], cbAlive[t]) = "Ok"

\* C14: login() does not return while the Secret Provider runs; when it returns,
\* a signal is in the channel or the callback has been dropped; and it returns
\* LoginAborted only with the callback dropped and no signal
C14_WaitsForProvider ==
  [][\A t \in Callers :
       /\ pc[t] = "prompt" => pc'[t] \in {"prompt", "recv"}
       /\ (pc[t] = "recv" /\ pc'[t] # "recv") => (chan[t] > 0 \/ ~cbAlive[t])
       /\ (pc[t] = "recv" /\ pc'[t] = "done") => (chan[t] = 0 /\ ~cbAlive[t])]_vars

\* C14 happens: the provider has returned having kept the callback, which was
\* invoked without success, and login() is blocked in recv
C14_Witness ==
  \E t \in Callers :
    /\ pc[t] = "recv" /\ cbAlive[t] /\ attempts[t] > 0 /\ chan[t] = 0
    /\ Recv(chan[t], cbAlive[t]) = "block"

\* caller t is inside login(), from the lock of the provider to the return
InLogin(t) == pc[t] \in {"prompt", "recv"}

\* C15: two callers that share a cache or a Secret Provider are never both
\* inside login(); the provider's lock is held by a caller exactly while that
\* caller is inside login(), so it is free whenever a caller is about to log in
C15_OneLogin ==
  /\ \A t, u \in Callers :
       (t # u /\ InLogin(t) /\ InLogin(u)) => (Pw(t) # Pw(u) /\ Cell(t) # Cell(u))
  /\ \A m \in PwIds, t \in Callers : pwLock[m] = t <=> (InLogin(t) /\ Pw(t) = m)
  /\ \A t \in Callers : pc[t] = "login" => pwLock[Pw(t)] = 0

\* C15 happens: the login of a retry within one get_token call has taken the
\* provider's lock again, while another caller waits for the cache
C15_Witness ==
  \E t, u \in Callers :
    /\ loginN[t] = 2 /\ pc[t] = "prompt" /\ pwLock[Pw(t)] = t
    /\ pc[u] = "lock"

\* C16: when login() fails, get_token returns LoginAborted at once: the lock is
\* released, the cache untouched, the operation has LoginAborted as its result,
\* and the last answer of the authorization endpoint is the one without redirect
C16_LoginErrorReturned ==
  /\ [](\A t \in Callers : ret[t] = Err("LoginAborted") => seen[t] = NoLocation)
  /\ [][\A t \in Callers :
          (pc[t] = "recv" /\ pc'[t] # "recv"
           /\ Recv(chan[t], cbAlive[t]) = "LoginAborted")
            => /\ pc'[t] = "done"
               /\ ret'[t] = Err("LoginAborted") /\ res'[t] = Err("LoginAborted")
               /\ tokenLock'[Cell(t)] = 0 /\ token' = token
               /\ resStarted' = resStarted]_vars

\* C16 happens: a direct get_token call met an answer without redirect, its
\* login failed, and it has returned LoginAborted
C16_Witness ==
  \E t \in Callers :
    /\ op[t] = "get_token" /\ pc[t] = "done" /\ res[t] = Err("LoginAborted")
    /\ seen[t] = NoLocation /\ resStarted = 1 /\ ~token[Cell(t)].some

\* a location that is no URL, and one in which the key does not occur
Unparsable(loc) == ~loc.ascii \/ ~UrlParse(loc.text).ok
NoTokenKey(loc) == \A i \in 1..Len(loc.text) : loc.text[i] # AccessToken

\* C17: when the answer to the authorization request of an empty cache carries a
\* location that is no URL or has no access_token key, get_token returns
\* BadFormat in that step: no login runs, no further request is made, the cache
\* stays empty
C17_BadLocation ==
  [][\A t \in Callers :
       (/\ pc[t] = "take" /\ ~token[Cell(t)].some /\ pc'[t] # "take"
        /\ seen'[t] # NoLocation
        /\ (Unparsable(seen'[t]) \/ NoTokenKey(seen'[t])))
         => /\ pc'[t] = "done" /\ ret'[t] = Err("BadFormat")
            /\ pwLock' = pwLock /\ loginN'[t] <= loginN[t] /\ authN'[t] <= authN[t]
            /\ token' = token]_vars

\* C17 happens: a location that is a URL without the key has ended get_token
\* with BadFormat
C17_Witness ==
  \E t \in Callers :
    /\ pc[t] = "done" /\ ret[t] = Err("BadFormat")
    /\ seen[t] # NoLocation /\ ~Unparsable(seen[t]) /\ NoTokenKey(seen[t])
    /\ Len(seen[t].text) > 1

\* the answer is a 200 whose body decodes into the expected shape
Succeeded(r) ==
  r.kind = "response" /\ r.status = StatusOK /\ r.body.io /\ r.body.json /\ r.body.fits

\* C18: in get_credits the second request is sent only after the first was
\* answered with success, and carries the preferred_username of that answer as
\* uid; when the first step fails the operation ends with an error after at
\* most one request; and once the first step has succeeded no resolution of the
\* credential is started
C18_TwoSteps ==
  /\ [](\A t \in Callers :
          op[t] = "credits"
            => /\ Len(dispatched[t]) >= 1 => dispatched[t][1].uid = <<>>
               /\ uid[t] # <<>>
                    => /\ Len(dispatched[t]) >= 1
                       /\ Succeeded(dispatched[t][1].answer)
                       /\ uid[t] = <<dispatched[t][1].answer.body.payload>>
               /\ Len(dispatched[t]) = 2
                    => uid[t] # <<>> /\ dispatched[t][2].uid = uid[t]
               /\ (pc[t] = "done" /\ uid[t] = <<>>)
                    => Len(dispatched[t]) <= 1 /\ res[t].kind # "Ok")
  /\ [][\A t \in Callers :
          (op[t] = "credits" /\ uid[t] # <<>>) => resStarted' = resStarted]_vars

\* C18 happens: get_credits has sent both requests after one resolution and
\* returned the value of the second answer
C18_Witness ==
  \E t \in Callers :
    /\ op[t] = "credits" /\ pc[t] = "done" /\ Len(dispatched[t]) = 2
    /\ dispatched[t][2].uid = <<"alice">> /\ Succeeded(dispatched[t][2].answer)
    /\ res[t].kind = "Ok" /\ resStarted = 1

\* C19: a get_token call that returns an error returns with the cache empty as
\* it was and the lock released, and the lock of a cache is never held but by a
\* caller inside get_token
C19_ErrorsNotCached ==
  /\ [](\A c \in Cells :
          tokenLock[c] # 0 => (InToken(tokenLock[c]) /\ Cell(tokenLock[c]) = c))
  /\ [][\A t \in Callers :
          (InToken(t) /\ pc'[t] \notin Holding /\ ret'[t].kind # "Ok")
            => /\ ~token[Cell(t)].some /\ token' = token
               /\ tokenLock'[Cell(t)] = 0]_vars

\* C19 happens: after a resolution that failed, a later get_token call has run a
\* second resolution and returned the credential now cached
C19_Witness ==
  \E t \in Callers :
    /\ resStarted = 2 /\ op[t] = "get_token" /\ pc[t] = "done"
    /\ ret[t].kind = "Ok" /\ token[Cell(t)] = Some(ret[t].val)
    /\ tokenLock[Cell(t)] = 0

\* caller t's login runs default_password_prompt
DefaultPrompt(t) == InLogin(t) /\ prompt[Pw(t)] = "default"

\* C20: default_password_prompt returns on a success and on an Err and on
\* nothing else; in a login it runs, a failed attempt leaves it running with the
\* callback, it has returned only after an attempt that succeeded, the callback
\* is not invoked after that, and at most one signal is sent
C20_DefaultPrompt ==
  /\ [](/\ PromptReturns(CallbackResult(Kinit(TRUE)))
        /\ PromptReturns([ok |-> FALSE, value |-> NoOutcome])
        /\ \A t \in Callers :
             DefaultPrompt(t)
               => /\ wins[t] <= 1 /\ chan[t] <= 1
                  /\ pc[t] = "prompt" => wins[t] = 0 /\ cbAlive[t]
                  /\ pc[t] = "recv"
                       => wins[t] = 1 /\ outcome[t].success /\ ~cbAlive[t])
  /\ [][\A t \in Callers :
          DefaultPrompt(t)
            => /\ (Invoked(t) /\ ~outcome'[t].success)
                    => pc'[t] = "prompt" /\ cbAlive'[t]
               /\ (Invoked(t) /\ outcome'[t].success) => pc'[t] = "recv"
               /\ Invoked(t) => pc[t] = "prompt"]_vars

\* C20 happens: the default prompt met a wrong secret, asked again, and has
\* returned after the attempt that succeeded, one signal in the channel
C20_Witness ==
  \E t \in Callers :
    /\ DefaultPrompt(t) /\ pc[t] = "recv"
    /\ attempts[t] = 2 /\ wins[t] = 1 /\ chan[t] = 1 /\ ~cbAlive[t]

====
